---- MODULE Spec2Model ----
(***************************************************************************)
(* Model of the Hangman game engine (gameLogic.py, class HangmanGame).     *)
(*                                                                         *)
(* A Python string is a sequence of one-character strings.  The state of   *)
(* one HangmanGame instance is its four attributes; op, arg, arg_max and   *)
(* ret record the last call made on the instance, its argument and its     *)
(* return value, and pre_used / pre_wrong record used_letters and          *)
(* wrong_guesses as they were when that call began.  hints counts the      *)
(* calls of useHint that returned a letter since the round began.          *)
(* A bool is recorded as "True" / "False", None as "None", a revealed      *)
(* letter as that character, and the string of getMaskedWord as the        *)
(* sequence of its characters.                                             *)
(*                                                                         *)
(* Spec is the single engine under arbitrary calls.  SpecPair and          *)
(* SpecReplay hold two HangmanGame objects in one process: inst maps an    *)
(* instance to its attributes, where used_letters is a reference into      *)
(* heap, the store of the set objects (the module-level                    *)
(* AUTO_REVEAL_LETTERS is one of them); last records the last call and     *)
(* pending the call the second instance has still to repeat.  Each         *)
(* specification leaves the variables of the others at a fixed value.      *)
(*                                                                         *)
(* SpecBank is the WordBank under lookups and assignments to its public    *)
(* attribute: categories is the dictionary, out the record of the last     *)
(* call.                                                                   *)
(***************************************************************************)
EXTENDS Integers, Sequences, FiniteSets, TLC

(* ---------------------------- bounds ----------------------------------- *)

\* longest secret word handed to the constructor or to resetGame
MaxWordLen == 2
\* largest max_attempts argument of the constructor
MaxBudget == 4

(* ------------------------ module constants ----------------------------- *)

DEFAULT_MAX_ATTEMPTS == 6
HINT_COST == 2
AUTO_REVEAL_LETTERS == {"r", "s", "t", "l", "n", "e"}

(* ------------------------ characters, str methods ---------------------- *)

\* the characters the model draws words and guesses from
LowerLetters ==
    {"a", "j", "q", "b", "c", "d", "f", "U+00DF"} \cup AUTO_REVEAL_LETTERS
UpperLetters == {"J", "E", "A", "Q", "B", "C", "S"}
\* an alphabetic character of a script without case: U+05D0, HEBREW LETTER
\* ALEF, for which isalpha() is True, lower() is the identity and islower()
\* is False
CaselessLetters == {"U+05D0"}
NonLetters == {"1", "-"}

\* str.lower() on one character
lowerChar(c) ==
    CASE c = "J" -> "j"
      [] c = "E" -> "e"
      [] c = "A" -> "a"
      [] c = "Q" -> "q"
      [] c = "B" -> "b"
      [] c = "C" -> "c"
      [] c = "S" -> "s"
      [] OTHER -> c

\* slip: only the first character is lowercased
lower_first(s) ==
    [i \in DOMAIN s |-> IF i = 1 THEN lowerChar(s[i]) ELSE s[i]]

\* slip: the argument is never lowercased
lower_identity(s) == s

\* str.lower()
lower(s) == [i \in DOMAIN s |-> lowerChar(s[i])]

\* str.upper() on one character: U+00DF, LATIN SMALL LETTER SHARP S, is
\* alphabetic and its upper case is the two characters SS
upperChar(c) ==
    CASE c = "j" -> <<"J">>
      [] c = "e" -> <<"E">>
      [] c = "a" -> <<"A">>
      [] c = "q" -> <<"Q">>
      [] c = "b" -> <<"B">>
      [] c = "c" -> <<"C">>
      [] c = "s" -> <<"S">>
      [] c = "U+00DF" -> <<"S", "S">>
      [] OTHER -> <<c>>

RECURSIVE upper(_)
\* str.upper()
upper(s) == IF s = <<>> THEN <<>> ELSE upperChar(Head(s)) \o upper(Tail(s))

RECURSIVE lstrip(_)
\* str.lstrip() for the blank
lstrip(s) == IF s # <<>> /\ Head(s) = " " THEN lstrip(Tail(s)) ELSE s

RECURSIVE rstrip(_)
\* str.rstrip() for the blank
rstrip(s) ==
    IF s # <<>> /\ s[Len(s)] = " " THEN rstrip(SubSeq(s, 1, Len(s) - 1))
                                    ELSE s

\* slip: the line is taken as typed
strip_identity(s) == s

\* str.strip()
strip(s) == rstrip(lstrip(s))

\* str.isalpha() on one character
isalphaChar(c) == c \in LowerLetters \cup UpperLetters \cup CaselessLetters

\* str.isalpha(): non-empty and every character alphabetic
isalpha(s) == Len(s) > 0 /\ \A i \in DOMAIN s : isalphaChar(s[i])

\* `x in s` for a one-character x and a string s
charIn(c, s) == \E i \in DOMAIN s : s[i] = c

SeqsUpTo(S, n) == UNION {[1..k -> S] : k \in 0..n}

\* secret words: every string over WordChars of length 0..MaxWordLen
WordChars == {"a", "J", "e", "-"}
Words == SeqsUpTo(WordChars, MaxWordLen)

\* max_attempts arguments: the constructor validates nothing, so a
\* negative budget and zero are included
Budgets == (-1)..MaxBudget

\* arguments of processGuess: the empty string, single characters
\* (lowercase, uppercase, auto-revealed, caseless, non-alphabetic) and
\* longer strings
GuessChars == {"a", "j", "J", "q", "E", "U+05D0", "1"}
GuessInputs ==
    {<<>>} \cup {<<c>> : c \in GuessChars} \cup {<<"a", "q">>, <<"a", "1">>}

(* ------------------------------ state ---------------------------------- *)

VARIABLES secret_word, max_attempts, used_letters, wrong_guesses,
          op, arg, arg_max, ret, pre_used, pre_wrong, hints

VARIABLES heap, inst, last, pending
VARIABLES categories, app, out

game == <<secret_word, max_attempts, used_letters, wrong_guesses>>
engineVars == <<secret_word, max_attempts, used_letters, wrong_guesses,
                op, arg, arg_max, ret, pre_used, pre_wrong, hints>>
objectVars == <<heap, inst, last, pending>>
uiVars == <<categories, app, out>>
vars == <<engineVars, objectVars, uiVars>>

\* the value of the object variables while the single engine runs
objectsIdle ==
    /\ heap = <<>>
    /\ inst = <<>>
    /\ last = <<>>
    /\ pending = <<>>

\* the value of the word bank and front end variables while neither exists
uiIdle ==
    /\ categories = <<>>
    /\ app = <<>>
    /\ out = <<>>

\* the value of the single-engine variables while the objects run
engineIdle ==
    /\ secret_word = <<>>
    /\ max_attempts = 0
    /\ used_letters = {}
    /\ wrong_guesses = 0
    /\ op = "idle"
    /\ arg = <<>>
    /\ arg_max = 0
    /\ ret = "None"
    /\ pre_used = {}
    /\ pre_wrong = 0
    /\ hints = 0

(* ------------------------------ queries -------------------------------- *)

\* slip: the bonus letters are never added
autoRevealCommonLetters_none(used) == used

\* used_letters after _autoRevealCommonLetters()
autoRevealCommonLetters(used) == used \cup AUTO_REVEAL_LETTERS

\* slip: an empty word is never won
wonWith_nonEmpty(word, used) ==
    Len(word) > 0 /\ \A i \in DOMAIN word : word[i] \in used

\* isWon() evaluated on a word and a set of used letters
wonWith(word, used) == \A i \in DOMAIN word : word[i] \in used

isWon == wonWith(secret_word, used_letters)

\* slip: > instead of >=
lostWith_strict(wrong, max) == wrong > max

\* isLost() evaluated on a penalty count and a budget
lostWith(wrong, max) == wrong >= max

isLost == lostWith(wrong_guesses, max_attempts)

isFinished == isWon \/ isLost

\* slip: the isalpha() filter of the comprehension is dropped
unguessedOf_anyChar(word, used) ==
    SelectSeq(word, LAMBDA ch : ch \notin used)

\* the list `unguessed` of useHint (duplicates kept, word order)
unguessedOf(word, used) ==
    SelectSeq(word, LAMBDA ch : ch \notin used /\ isalphaChar(ch))

unguessed == unguessedOf(secret_word, used_letters)

(* --------------------------- construction ------------------------------ *)

\* slip: the budget is validated and raised to at least 1
initGame_clamped(word, max) ==
    [secret_word   |-> lower(word),
     max_attempts  |-> IF max < 1 THEN 1 ELSE max,
     used_letters  |-> autoRevealCommonLetters({}),
     wrong_guesses |-> 0]

\* the attributes __init__(secret_word, max_attempts) leaves behind
initGame(word, max) ==
    [secret_word   |-> lower(word),
     max_attempts  |-> max,
     used_letters  |-> autoRevealCommonLetters({}),
     wrong_guesses |-> 0]

Init ==
    \E w \in Words, m \in Budgets :
        /\ secret_word = initGame(w, m).secret_word
        /\ max_attempts = initGame(w, m).max_attempts
        /\ used_letters = initGame(w, m).used_letters
        /\ wrong_guesses = initGame(w, m).wrong_guesses
        /\ op = "init"
        /\ arg = w
        /\ arg_max = m
        /\ ret = "None"
        /\ pre_used = {}
        /\ pre_wrong = 0
        /\ hints = 0
        /\ objectsIdle
        /\ uiIdle

(* ----------------------------- operations ------------------------------ *)

\* common bookkeeping of a call: what was called, and the state it began in
called(name, argument) ==
    /\ op' = name
    /\ arg' = argument
    /\ pre_used' = used_letters
    /\ pre_wrong' = wrong_guesses
    /\ UNCHANGED <<arg_max, objectVars, uiVars>>

\* slip: used_letters.clear() is missing
clearedUsed_noClear(used) == autoRevealCommonLetters(used)

\* used_letters.clear() followed by _autoRevealCommonLetters()
clearedUsed(used) == autoRevealCommonLetters({})

resetGame(new_secret_word) ==
    /\ called("reset", new_secret_word)
    /\ secret_word' = lower(new_secret_word)
    /\ used_letters' = clearedUsed(used_letters)
    /\ wrong_guesses' = 0
    /\ ret' = "None"
    /\ hints' = 0
    /\ UNCHANGED max_attempts

\* `for letter in letters: used.add(letter)`
addAll(used, letters) == used \cup letters

\* slip: the set is assigned instead of added to
addUsed_assign(used, c) == {c}

\* used_letters.add(c)
addUsed(used, c) == used \cup {c}

\* slip: the isalpha() test is dropped
invalidGuess_noAlpha(l) == Len(l) # 1

\* slip: the length test is dropped
invalidGuess_noLen(l) == ~isalpha(l)

\* slip: the duplicate test is dropped
alreadyUsed_never(l, used) == FALSE

\* the two early returns of processGuess
invalidGuess(l) == ~isalpha(l) \/ Len(l) # 1

alreadyUsed(l, used) == l[1] \in used

\* slip: the counter is treated as remaining lives
penalized_down(wrong) == wrong - 1

\* slip: a wrong guess is charged like a hint
penalized_double(wrong) == wrong + HINT_COST

\* the penalty of a new letter that is not in the word
penalized(wrong) == wrong + 1

\* slip: a finished round ignores further guesses
processGuess_guarded(letter) ==
    LET l == lower(letter) IN
    /\ called("guess", letter)
    /\ UNCHANGED <<secret_word, max_attempts, hints>>
    /\ IF isFinished \/ invalidGuess(l)
       THEN /\ ret' = "False"
            /\ UNCHANGED <<used_letters, wrong_guesses>>
       ELSE IF alreadyUsed(l, used_letters)
       THEN /\ ret' = "False"
            /\ UNCHANGED <<used_letters, wrong_guesses>>
       ELSE /\ used_letters' = addUsed(used_letters, l[1])
            /\ IF ~charIn(l[1], secret_word)
               THEN /\ wrong_guesses' = penalized(wrong_guesses)
                    /\ ret' = "False"
               ELSE /\ wrong_guesses' = wrong_guesses
                    /\ ret' = "True"

processGuess(letter) ==
    LET l == lower(letter) IN
    /\ called("guess", letter)
    /\ UNCHANGED <<secret_word, max_attempts, hints>>
    /\ IF invalidGuess(l)
       THEN /\ ret' = "False"
            /\ UNCHANGED <<used_letters, wrong_guesses>>
       ELSE IF alreadyUsed(l, used_letters)
       THEN /\ ret' = "False"
            /\ UNCHANGED <<used_letters, wrong_guesses>>
       ELSE /\ used_letters' = addUsed(used_letters, l[1])
            /\ IF ~charIn(l[1], secret_word)
               THEN /\ wrong_guesses' = penalized(wrong_guesses)
                    /\ ret' = "False"
               ELSE /\ wrong_guesses' = wrong_guesses
                    /\ ret' = "True"

\* slip: the guard compares against 1 instead of HINT_COST
hintAffordable_one(max, wrong) == ~(max - wrong < 1)

\* slip: the guard is missing
hintAffordable_always(max, wrong) == TRUE

\* the budget guard of useHint
hintAffordable(max, wrong) == ~(max - wrong < HINT_COST)

\* slip: a hint costs one attempt
hintPenalty_one(wrong) == wrong + 1

\* the penalty of a successful hint
hintPenalty(wrong) == wrong + HINT_COST

useHint ==
    /\ called("hint", <<>>)
    /\ UNCHANGED <<secret_word, max_attempts>>
    /\ IF ~hintAffordable(max_attempts, wrong_guesses)
       THEN /\ ret' = "None"
            /\ UNCHANGED <<used_letters, wrong_guesses, hints>>
       ELSE IF unguessed = <<>>
       THEN /\ ret' = "None"
            /\ UNCHANGED <<used_letters, wrong_guesses, hints>>
       ELSE \E i \in DOMAIN unguessed :
            /\ used_letters' = addUsed(used_letters, unguessed[i])
            /\ wrong_guesses' = hintPenalty(wrong_guesses)
            /\ ret' = unguessed[i]
            /\ hints' = hints + 1

(* ------------------------------ query calls ---------------------------- *)

\* a Python bool as it is recorded in ret
bool(b) == IF b THEN "True" ELSE "False"

\* slip: the test of the comprehension is inverted
maskedCharacters_inverted(word, used) ==
    [i \in DOMAIN word |-> IF word[i] \notin used THEN word[i] ELSE "_"]

\* the list masked_characters of getMaskedWord
maskedCharacters(word, used) ==
    [i \in DOMAIN word |-> IF word[i] \in used THEN word[i] ELSE "_"]

\* sep.join(parts) for one-character parts, as a sequence of characters
RECURSIVE join(_, _)
join(sep, parts) ==
    IF parts = <<>> THEN <<>>
    ELSE IF Len(parts) = 1 THEN <<parts[1]>>
    ELSE <<parts[1], sep>> \o join(sep, Tail(parts))

\* the string getMaskedWord() returns
maskedWord == join(" ", maskedCharacters(secret_word, used_letters))

\* a call that returns a value and writes no attribute
query(name, result) ==
    /\ called(name, <<>>)
    /\ ret' = result
    /\ UNCHANGED <<game, hints>>

\* slip: the first character is read before the loop, which raises on an
\* empty word (a call that raises takes no step)
getMaskedWord_nonEmpty ==
    /\ Len(secret_word) > 0
    /\ query("getMaskedWord", maskedWord)

\* slip: the masked list is stored in the attribute instead of a local
getMaskedWord_stored ==
    /\ called("getMaskedWord", <<>>)
    /\ ret' = maskedWord
    /\ secret_word' = maskedCharacters(secret_word, used_letters)
    /\ UNCHANGED <<max_attempts, used_letters, wrong_guesses, hints>>

getMaskedWord == query("getMaskedWord", maskedWord)

isWonCall == query("isWon", bool(isWon))

isLostCall == query("isLost", bool(isLost))

isFinishedCall == query("isFinished", bool(isFinished))

Next ==
    \/ \E w \in Words : resetGame(w)
    \/ \E g \in GuessInputs : processGuess(g)
    \/ useHint
    \/ getMaskedWord
    \/ isWonCall
    \/ isLostCall
    \/ isFinishedCall

Spec == Init /\ [][Next]_vars

TypeOK ==
    /\ secret_word \in SeqsUpTo(LowerLetters \cup NonLetters, MaxWordLen)
    /\ max_attempts \in Budgets
    /\ used_letters \subseteq LowerLetters \cup CaselessLetters
    /\ wrong_guesses \in Nat
    /\ hints \in Nat
    /\ op \in {"init", "reset", "guess", "hint",
               "getMaskedWord", "isWon", "isLost", "isFinished"}

(* -------------------- the engine under its callers ---------------------- *)
(* SpecDisciplined is the single engine as the front ends drive it: a      *)
(* guess or a hint is made only while isFinished() is False.               *)

\* the guard of the loop of the CLI and of _onGuess
guessWhilePlaying(letter) ==
    /\ ~isFinished
    /\ processGuess(letter)

\* the guard of _onHintButtonClicked
hintWhilePlaying ==
    /\ ~isFinished
    /\ useHint

NextDisciplined ==
    \/ \E w \in Words : resetGame(w)
    \/ \E g \in GuessInputs : guessWhilePlaying(g)
    \/ hintWhilePlaying
    \/ isFinishedCall

SpecDisciplined == Init /\ [][NextDisciplined]_vars

(* ------------------- two instances in one process ----------------------- *)

Instances == {1, 2}

\* the set object bound to the module-level name AUTO_REVEAL_LETTERS
AutoRef == "AUTO_REVEAL_LETTERS"

\* slip: `self.used_letters = AUTO_REVEAL_LETTERS` instead of a new set
newSet_shared(i) == AutoRef

\* the new set object that set() creates in __init__ of instance i
newSet(i) == IF i = 1 THEN "used_letters_1" ELSE "used_letters_2"

\* the store after _autoRevealCommonLetters() on the set object ref
autoRevealObj(h, ref) == [h EXCEPT ![ref] = addAll(h[ref], h[AutoRef])]

\* HangmanGame(word, max) for instance i: the store and the attributes
constructObj(h, i, word, max) ==
    LET ref == newSet(i)
        h1 == [r \in DOMAIN h \cup {ref} |-> IF r = ref THEN {} ELSE h[r]]
    IN  [heap |-> autoRevealObj(h1, ref),
         game |-> [secret_word   |-> lower(word),
                   max_attempts  |-> max,
                   used_letters  |-> ref,
                   wrong_guesses |-> 0],
         ret  |-> "None"]

\* g.resetGame(word)
resetObj(h, g, word) ==
    LET h1 == [h EXCEPT ![g.used_letters] = {}]
    IN  [heap |-> autoRevealObj(h1, g.used_letters),
         game |-> [g EXCEPT !.secret_word = lower(word),
                            !.wrong_guesses = 0],
         ret  |-> "None"]

\* g.processGuess(letter)
guessObj(h, g, letter) ==
    LET l == lower(letter)
        used == h[g.used_letters]
    IN  IF invalidGuess(l) \/ alreadyUsed(l, used)
        THEN [heap |-> h, game |-> g, ret |-> "False"]
        ELSE LET h1 == [h EXCEPT ![g.used_letters] = addUsed(used, l[1])]
             IN  IF ~charIn(l[1], g.secret_word)
                 THEN [heap |-> h1,
                       game |-> [g EXCEPT !.wrong_guesses = penalized(@)],
                       ret  |-> "False"]
                 ELSE [heap |-> h1, game |-> g, ret |-> "True"]

\* the draws of the randomness source
Draws == 0 .. (MaxWordLen - 1)

\* random.choice(seq) when the randomness source draws k
choice(seq, k) == seq[(k % Len(seq)) + 1]

\* g.useHint() when the randomness source draws k
hintObj(h, g, k) ==
    LET un == unguessedOf(g.secret_word, h[g.used_letters])
    IN  IF ~hintAffordable(g.max_attempts, g.wrong_guesses) \/ un = <<>>
        THEN [heap |-> h, game |-> g, ret |-> "None"]
        ELSE [heap |-> [h EXCEPT ![g.used_letters] =
                                     addUsed(@, choice(un, k))],
              game |-> [g EXCEPT !.wrong_guesses = hintPenalty(@)],
              ret  |-> choice(un, k)]

\* the outcomes of g.useHint(), one for each draw
hintObjs(h, g) == {hintObj(h, g, k) : k \in Draws}

\* g.isWon(), g.isLost(), g.isFinished()
isWonObj(h, g) == wonWith(g.secret_word, h[g.used_letters])
isLostObj(g) == lostWith(g.wrong_guesses, g.max_attempts)
isFinishedObj(h, g) == isWonObj(h, g) \/ isLostObj(g)

\* words, budgets and guesses of the two-instance specifications
PairWords == {<<"e">>, <<"a", "J">>}
PairBudgets == {0, 3}
PairGuesses == {<<"a">>, <<"J">>, <<"q">>, <<"1">>}

\* the store before any game exists: only the module-level set
initialHeap == [r \in {AutoRef} |-> AUTO_REVEAL_LETTERS]

\* instance i made the call and the outcome r is stored
done(i, name, argument, r) ==
    /\ heap' = r.heap
    /\ inst' = [inst EXCEPT ![i] = r.game]
    /\ last' = [who |-> i, op |-> name, arg |-> argument, ret |-> r.ret]

\* two games are constructed one after the other
InitPair ==
    /\ engineIdle
    /\ uiIdle
    /\ pending = <<>>
    /\ \E w1 \in PairWords, w2 \in PairWords,
          m1 \in PairBudgets, m2 \in PairBudgets :
         LET c1 == constructObj(initialHeap, 1, w1, m1)
             c2 == constructObj(c1.heap, 2, w2, m2)
         IN  /\ heap = c2.heap
             /\ inst = <<c1.game, c2.game>>
             /\ last = [who |-> 2, op |-> "init", arg |-> w2, ret |-> "None"]

resetGameOn(i, w) ==
    /\ done(i, "reset", w, resetObj(heap, inst[i], w))
    /\ UNCHANGED <<engineVars, uiVars, pending>>

processGuessOn(i, g) ==
    /\ done(i, "guess", g, guessObj(heap, inst[i], g))
    /\ UNCHANGED <<engineVars, uiVars, pending>>

useHintOn(i) ==
    /\ \E r \in hintObjs(heap, inst[i]) : done(i, "hint", <<>>, r)
    /\ UNCHANGED <<engineVars, uiVars, pending>>

NextPair ==
    \/ \E i \in Instances, w \in PairWords : resetGameOn(i, w)
    \/ \E i \in Instances, g \in PairGuesses : processGuessOn(i, g)
    \/ \E i \in Instances : useHintOn(i)

SpecPair == InitPair /\ [][NextPair]_vars

(* -------- the same calls on two games of the same word and budget ------- *)

\* no call is waiting to be repeated
noCall == [op |-> "none", arg |-> <<>>, rnd |-> 0, ret |-> "None"]

\* the outcome of the call c on the game g
callObj(h, g, c) ==
    CASE c.op = "reset" -> resetObj(h, g, c.arg)
      [] c.op = "guess" -> guessObj(h, g, c.arg)
      [] OTHER          -> hintObj(h, g, c.rnd)

\* two games are constructed with the same word and the same budget
InitReplay ==
    /\ engineIdle
    /\ uiIdle
    /\ pending = noCall
    /\ \E w \in PairWords, m \in PairBudgets :
         LET c1 == constructObj(initialHeap, 1, w, m)
             c2 == constructObj(c1.heap, 2, w, m)
         IN  /\ heap = c2.heap
             /\ inst = <<c1.game, c2.game>>
             /\ last = [who |-> 2, op |-> "init", arg |-> w, ret |-> "None"]

\* the first game makes the call c, which the second game has to repeat
first(c) ==
    /\ pending.op = "none"
    /\ LET r == callObj(heap, inst[1], c)
       IN  /\ done(1, c.op, c.arg, r)
           /\ pending' = [c EXCEPT !.ret = r.ret]
    /\ UNCHANGED <<engineVars, uiVars>>

resetGameFirst(w) == first([noCall EXCEPT !.op = "reset", !.arg = w])

processGuessFirst(g) == first([noCall EXCEPT !.op = "guess", !.arg = g])

useHintFirst(k) == first([noCall EXCEPT !.op = "hint", !.rnd = k])

\* the second game repeats the call, the randomness source its draw
repeatSecond ==
    /\ pending.op # "none"
    /\ done(2, pending.op, pending.arg, callObj(heap, inst[2], pending))
    /\ pending' = noCall
    /\ UNCHANGED <<engineVars, uiVars>>

NextReplay ==
    \/ \E w \in PairWords : resetGameFirst(w)
    \/ \E g \in PairGuesses : processGuessFirst(g)
    \/ \E k \in Draws : useHintFirst(k)
    \/ repeatSecond

SpecReplay == InitReplay /\ [][NextReplay]_vars

(* ------------------------------ word bank ------------------------------- *)

DEFAULT_CATEGORY == "general"

\* the dictionary _initializeDefaultCategories builds, abridged to two of
\* its categories and to short words over the alphabet of the model: every
\* word is lower-case and alphabetic and holds a letter outside r s t l n e
defaultCategories ==
    [c \in {"general", "animals"} |->
        IF c = "general" THEN << <<"a", "j">>, <<"q", "b">> >>
                         ELSE << <<"c", "a">> >>]

\* slip: an unknown category has no words
getWordsForCategory_noFallback(cats, category_name) ==
    IF category_name \in DOMAIN cats THEN cats[category_name] ELSE <<>>

\* getWordsForCategory(category_name) on the dictionary cats
getWordsForCategory(cats, category_name) ==
    LET name == IF category_name \notin DOMAIN cats
                THEN DEFAULT_CATEGORY
                ELSE category_name
    IN  IF name \in DOMAIN cats THEN cats[name] ELSE <<>>

\* the category the lookup ends at
resolved(cats, category_name) ==
    IF category_name \notin DOMAIN cats THEN DEFAULT_CATEGORY
                                        ELSE category_name

\* slip: the error names the category the lookup ended at
errorNames_resolved(cats, category_name) == resolved(cats, category_name)

\* the category in the message of the ValueError: the argument of the call
errorNames(cats, category_name) == category_name

\* the outcomes of getRandomWord(category_name), one for each word
\* random.choice can return
getRandomWord(cats, category_name) ==
    LET words == getWordsForCategory(cats, category_name)
    IN  IF words = <<>>
        THEN {[error |-> "ValueError",
               names |-> errorNames(cats, category_name),
               word  |-> <<>>]}
        ELSE {[error |-> "none", names |-> "", word |-> words[k]] :
                 k \in DOMAIN words}

\* the category names of the calls and of the assignments
CategoryArgs == {"general", "animals", "empty", "unknown"}
AssignedNames == {"general", "animals", "empty"}
AssignedLists == {<<>>, << <<"j", "a">> >>}

InitBank ==
    /\ engineIdle
    /\ objectsIdle
    /\ categories = defaultCategories
    /\ app = <<>>
    /\ out = [op |-> "init", arg |-> "", error |-> "none", names |-> "",
              word |-> <<>>, words |-> <<>>]

\* word_bank.categories[name] = words
assignCategory(name, words) ==
    /\ categories' = [c \in DOMAIN categories \cup {name} |->
                         IF c = name THEN words ELSE categories[c]]
    /\ out' = [op |-> "assign", arg |-> name, error |-> "none",
               names |-> "", word |-> <<>>, words |-> words]
    /\ UNCHANGED <<engineVars, objectVars, app>>

getWordsForCategoryCall(c) ==
    /\ out' = [op |-> "getWordsForCategory", arg |-> c, error |-> "none",
               names |-> "", word |-> <<>>,
               words |-> getWordsForCategory(categories, c)]
    /\ UNCHANGED <<engineVars, objectVars, categories, app>>

getRandomWordCall(c) ==
    /\ \E r \in getRandomWord(categories, c) :
          out' = [op |-> "getRandomWord", arg |-> c, error |-> r.error,
                  names |-> r.names, word |-> r.word, words |-> <<>>]
    /\ UNCHANGED <<engineVars, objectVars, categories, app>>

NextBank ==
    \/ \E c \in AssignedNames, ws \in AssignedLists : assignCategory(c, ws)
    \/ \E c \in CategoryArgs : getWordsForCategoryCall(c)
    \/ \E c \in CategoryArgs : getRandomWordCall(c)

SpecBank == InitBank /\ [][NextBank]_vars

(* ------------------------- presentation layers -------------------------- *)
(* SpecUi is one front end over the word bank and one game: app holds the  *)
(* attributes of HangmanCli or HangmanApp, app.game is the slot of inst    *)
(* that holds the current game (0 for None), and out records what the last *)
(* handler did: the engine calls it made, the message boxes it showed, the *)
(* result it printed and the error it raised.                              *)

\* the largest score at which a new round is still started
MaxScore == 6

\* createGameInstance(word), the new object in slot i of a store
\* that holds no other game
createGameInstance(i, word) ==
    constructObj([r \in {AutoRef} |-> heap[AutoRef]], i, word,
                 DEFAULT_MAX_ATTEMPTS)

\* the slot of the next game object
newSlot == IF app.game = 1 THEN 2 ELSE 1

\* the record of a handler that did nothing
quiet(name) ==
    [op |-> name, arg |-> "", calls |-> <<>>, boxes |-> <<>>,
     printed |-> "", error |-> "none"]

\* _handleWin() on the app a and the game g (0 for None) over the store h
handleWin(a, h, g) ==
    IF a.game = 0
    THEN [app   |-> [a EXCEPT !.input = "disabled"],
          boxes |-> <<>>,
          error |-> "AttributeError"]
    ELSE LET points == (g.max_attempts - g.wrong_guesses) * Len(g.secret_word)
         IN  [app   |-> [a EXCEPT !.input = "disabled",
                                  !.score = @ + points],
              boxes |-> <<"win">>,
              error |-> "none"]

\* _handleLoss()
handleLoss(a, h, g) ==
    IF a.game = 0
    THEN [app   |-> [a EXCEPT !.input = "disabled"],
          boxes |-> <<>>,
          error |-> "AttributeError"]
    ELSE [app   |-> [a EXCEPT !.input = "disabled"],
          boxes |-> <<"loss">>,
          error |-> "none"]

\* slip: the loss is tested before the win
refreshUiAfterAction_lossFirst(a, h, g) ==
    IF a.game = 0 THEN [app |-> a, boxes |-> <<>>, error |-> "none"]
    ELSE IF isLostObj(g) THEN handleLoss(a, h, g)
    ELSE IF isWonObj(h, g) THEN handleWin(a, h, g)
    ELSE [app |-> a, boxes |-> <<>>, error |-> "none"]

\* _refreshUiAfterAction()
refreshUiAfterAction(a, h, g) ==
    IF a.game = 0 THEN [app |-> a, boxes |-> <<>>, error |-> "none"]
    ELSE IF isWonObj(h, g) THEN handleWin(a, h, g)
    ELSE IF isLostObj(g) THEN handleLoss(a, h, g)
    ELSE [app |-> a, boxes |-> <<>>, error |-> "none"]

\* slip: a finished game is still driven
stopped_never(a, h, i) == a.game = 0

\* `self.game is None or self.game.isFinished()`
stopped(a, h, i) == a.game = 0 \/ isFinishedObj(h, i[a.game])

\* `letter.lower() in self.game.used_letters`
lowerInUsed(letter, used) ==
    Len(lower(letter)) = 1 /\ lower(letter)[1] \in used

\* slip: the game is reset in place and the score is cleared
startNewGame_inPlace(name, category) ==
    /\ app.game # 0
    /\ app.score < MaxScore
    /\ \E r \in getRandomWord(categories, category) :
         /\ r.error = "none"
         /\ LET c == resetObj(heap, inst[app.game], r.word)
            IN  /\ heap' = c.heap
                /\ inst' = [inst EXCEPT ![app.game] = c.game]
                /\ app' = [app EXCEPT !.current_category = category,
                                      !.input = "enabled",
                                      !.score = 0]
                /\ out' = [quiet(name) EXCEPT !.arg = category]

\* _startNewGame() at the end of the handler name, after current_category
\* was set to category
startNewGame(name, category) ==
    /\ app.score < MaxScore
    /\ \E r \in getRandomWord(categories, category) :
         IF r.error # "none"
         THEN /\ app' = [app EXCEPT !.current_category = category]
              /\ out' = [quiet(name) EXCEPT !.arg = category,
                                            !.error = r.error]
              /\ UNCHANGED <<heap, inst>>
         ELSE LET c == createGameInstance(newSlot, r.word)
              IN  /\ heap' = c.heap
                  /\ inst' = [j \in {newSlot} |-> c.game]
                  /\ app' = [app EXCEPT !.game = newSlot,
                                        !.current_category = category,
                                        !.input = "enabled"]
                  /\ out' = [quiet(name) EXCEPT !.arg = category]

\* the body of _onGuess(letter), entered from the handler name
guessed(name, letter) ==
    IF stopped(app, heap, inst)
    THEN out' = quiet(name) /\ UNCHANGED <<heap, inst, app>>
    ELSE IF lowerInUsed(letter, heap[inst[app.game].used_letters])
    THEN out' = quiet(name) /\ UNCHANGED <<heap, inst, app>>
    ELSE LET r == guessObj(heap, inst[app.game], letter)
             f == refreshUiAfterAction(app, r.heap, r.game)
         IN  /\ heap' = r.heap
             /\ inst' = [inst EXCEPT ![app.game] = r.game]
             /\ app' = f.app
             /\ out' = [quiet(name) EXCEPT !.calls = <<"processGuess">>,
                                           !.boxes = f.boxes,
                                           !.error = f.error]

\* the front end leaves the word bank and the other variables alone
frame == UNCHANGED <<engineVars, last, pending, categories>>

\* a click on the button of letter
onGuess(letter) ==
    /\ app.front = "gui"
    /\ guessed("onGuess", letter)
    /\ frame

\* a key press that delivers the string char
onPhysicalKey(char) ==
    /\ app.front = "gui"
    /\ IF char # <<>> /\ isalpha(char)
       THEN guessed("onPhysicalKey", upper(char))
       ELSE out' = quiet("onPhysicalKey") /\ UNCHANGED <<heap, inst, app>>
    /\ frame

onHintButtonClicked ==
    /\ app.front = "gui"
    /\ IF stopped(app, heap, inst)
       THEN out' = quiet("onHintButtonClicked")
            /\ UNCHANGED <<heap, inst, app>>
       ELSE \E r \in hintObjs(heap, inst[app.game]) :
              /\ heap' = r.heap
              /\ inst' = [inst EXCEPT ![app.game] = r.game]
              /\ IF r.ret # "None"
                 THEN LET f == refreshUiAfterAction(app, r.heap, r.game)
                      IN  /\ app' = f.app
                          /\ out' = [quiet("onHintButtonClicked") EXCEPT
                                        !.calls = <<"useHint">>,
                                        !.boxes = <<"hint">> \o f.boxes,
                                        !.error = f.error]
                 ELSE /\ app' = app
                      /\ out' = [quiet("onHintButtonClicked") EXCEPT
                                    !.calls = <<"useHint">>,
                                    !.boxes = <<"warning">>]
    /\ frame

onResetButtonClicked ==
    /\ app.front = "gui"
    /\ startNewGame("onResetButtonClicked", app.current_category)
    /\ frame

onCategoryChanged(new_category) ==
    /\ app.front = "gui"
    /\ startNewGame("onCategoryChanged", new_category)
    /\ frame

\* `ns.app.game = None` of the tests
clearGame ==
    /\ app.front = "gui"
    /\ app.game # 0
    /\ app' = [app EXCEPT !.game = 0]
    /\ heap' = [r \in {AutoRef} |-> heap[AutoRef]]
    /\ inst' = <<>>
    /\ out' = quiet("clearGame")
    /\ frame

\* _handleWin() called while the app holds no game, as the tests call it
handleWinCall ==
    /\ app.front = "gui"
    /\ app.game = 0
    /\ LET f == handleWin(app, heap, 0)
       IN  /\ app' = f.app
           /\ out' = [quiet("handleWin") EXCEPT !.boxes = f.boxes,
                                                !.error = f.error]
    /\ UNCHANGED <<heap, inst>>
    /\ frame

\* _handleLoss() called while the app holds no game, as the tests call it
handleLossCall ==
    /\ app.front = "gui"
    /\ app.game = 0
    /\ LET f == handleLoss(app, heap, 0)
       IN  /\ app' = f.app
           /\ out' = [quiet("handleLoss") EXCEPT !.boxes = f.boxes,
                                                 !.error = f.error]
    /\ UNCHANGED <<heap, inst>>
    /\ frame

\* slip: the loop goes on until the game is lost
loopEnds_whenLost(h, g) == isLostObj(g)

\* the loop of the CLI ends: `while not self.game.isFinished()` is left
loopEnds(h, g) == isFinishedObj(h, g)

\* the result the loop of the CLI prints once it has ended
printedResult(h, g) == IF isWonObj(h, g) THEN "won" ELSE "lost"

\* runGameLoop() up to the first input(): the loop is entered or, on a game
\* that is finished already, left at once
runGameLoop ==
    /\ app.front = "cli"
    /\ app.pc = "start"
    /\ IF loopEnds(heap, inst[app.game])
       THEN /\ app' = [app EXCEPT !.pc = "exit"]
            /\ out' = [quiet("runGameLoop") EXCEPT
                          !.printed = printedResult(heap, inst[app.game])]
       ELSE /\ app' = [app EXCEPT !.pc = "input"]
            /\ out' = quiet("runGameLoop")
    /\ UNCHANGED <<heap, inst>>
    /\ frame

\* input() returns line: the guess is made, then the loop goes on to the
\* next input() or ends and the result is printed
inputLine(line) ==
    /\ app.front = "cli"
    /\ app.pc = "input"
    /\ LET r == guessObj(heap, inst[app.game], strip(line))
       IN  /\ heap' = r.heap
           /\ inst' = [inst EXCEPT ![app.game] = r.game]
           /\ IF loopEnds(r.heap, r.game)
              THEN /\ app' = [app EXCEPT !.pc = "exit"]
                   /\ out' = [quiet("input") EXCEPT
                                 !.calls = <<"processGuess">>,
                                 !.printed = printedResult(r.heap, r.game)]
              ELSE /\ app' = app
                   /\ out' = [quiet("input") EXCEPT
                                 !.calls = <<"processGuess">>]
    /\ frame

\* the letters of the on-screen keyboard, the strings a key press delivers,
\* the lines typed at the prompt and the categories selected
ButtonLetters == {<<"A">>, <<"J">>, <<"Q">>, <<"B">>, <<"C">>, <<"E">>}
KeyChars ==
    {<<>>, <<"a">>, <<"J">>, <<"e">>, <<"U+05D0">>, <<"U+00DF">>, <<"1">>}
InputLines ==
    {<<>>, <<"a">>, <<"j">>, <<"q">>, <<"b">>, <<"c">>, <<"d">>, <<"f">>,
     <<"U+05D0">>, <<" ", "J", " ">>, <<"a", "j">>}
SelectedCategories == {"general", "animals", "unknown"}

\* HangmanCli(word_bank, createGameInstance) or
\* HangmanApp(word_bank, createGameInstance) on a new WordBank()
InitUi ==
    /\ engineIdle
    /\ last = <<>>
    /\ pending = <<>>
    /\ categories = defaultCategories
    /\ \E front \in {"cli", "gui"},
          r \in getRandomWord(defaultCategories, DEFAULT_CATEGORY) :
         LET c == constructObj(initialHeap, 1, r.word, DEFAULT_MAX_ATTEMPTS)
         IN  /\ heap = c.heap
             /\ inst = [j \in {1} |-> c.game]
             /\ app = [front |-> front,
                       game |-> 1,
                       current_category |-> DEFAULT_CATEGORY,
                       score |-> 0,
                       input |-> "enabled",
                       pc |-> "start"]
             /\ out = quiet("init")

NextUi ==
    \/ runGameLoop
    \/ \E line \in InputLines : inputLine(line)
    \/ \E letter \in ButtonLetters : onGuess(letter)
    \/ \E char \in KeyChars : onPhysicalKey(char)
    \/ onHintButtonClicked
    \/ onResetButtonClicked
    \/ \E c \in SelectedCategories : onCategoryChanged(c)
    \/ clearGame
    \/ handleWinCall
    \/ handleLossCall

SpecUi == InitUi /\ [][NextUi]_vars

(* ------------------------- a session of the CLI ------------------------- *)
(* SpecCli is HangmanCli over any word bank and any factory: the word and  *)
(* the budget of its game are arbitrary.  SpecCliFair adds that the        *)
(* program runs and that the player, whenever asked, eventually enters a   *)
(* letter that is not yet used.                                            *)

\* the words of the injected word bank and the budgets of the factory
CliWords == << <<"e">>, <<"a", "J">>, <<"a", "-">>, <<"q">> >>
CliBudgets == (-1) .. MaxBudget

\* HangmanCli(word_bank, game_factory)
InitCli ==
    /\ engineIdle
    /\ last = <<>>
    /\ pending = <<>>
    /\ categories = [c \in {DEFAULT_CATEGORY} |-> CliWords]
    /\ \E r \in getRandomWord(categories, DEFAULT_CATEGORY),
          m \in CliBudgets :
         LET c == constructObj(initialHeap, 1, r.word, m)
         IN  /\ heap = c.heap
             /\ inst = [j \in {1} |-> c.game]
             /\ app = [front |-> "cli",
                       game |-> 1,
                       current_category |-> DEFAULT_CATEGORY,
                       score |-> 0,
                       input |-> "enabled",
                       pc |-> "start"]
             /\ out = quiet("init")

\* the line holds one alphabetic character that is not yet used
fresh(line) ==
    LET l == lower(strip(line))
    IN  /\ ~invalidGuess(l)
        /\ ~alreadyUsed(l, heap[inst[app.game].used_letters])

\* the player enters a letter that is not yet used
inputFresh == \E line \in InputLines : fresh(line) /\ inputLine(line)

NextCli ==
    \/ runGameLoop
    \/ \E line \in InputLines : inputLine(line)

SpecCli == InitCli /\ [][NextCli]_vars

SpecCliFair == SpecCli /\ WF_vars(runGameLoop) /\ WF_vars(inputFresh)

(* ------------------------------ claims --------------------------------- *)

\* the used letters right after construction or reset
BonusSet == {"r", "s", "t", "l", "n", "e"}

\* the round began both won and lost: the bonus letters cover the word and
\* the budget is already spent with no wrong guess
BeganWonAndLost ==
    /\ \A i \in DOMAIN secret_word : secret_word[i] \in BonusSet
    /\ 0 >= max_attempts

\* the argument of the last / of the next processGuess is one letter
OneLetter(s) ==
    Len(s) = 1 /\ s[1] \in LowerLetters \cup UpperLetters \cup CaselessLetters

\* the alphabetic characters of the secret word that are not in a used set
MissingLetters(used) ==
    {secret_word[i] : i \in DOMAIN secret_word}
        \cap ((LowerLetters \cup CaselessLetters) \ used)

\* C1 (as stated): in every reachable state, isWon() and isLost() are both
\* true only if they were both true immediately after the construction or
\* reset that began the round.
C1_Original == (isWon /\ isLost) => BeganWonAndLost

\* C1 (amended): isWon() and isLost() become both true only at a
\* construction or reset, by a processGuess made in a round that is already
\* finished, or by a successful useHint that takes wrong_guesses to exactly
\* max_attempts; a processGuess in an unfinished round, and a useHint that
\* returns None, never make both true.
C1_WonAndLost ==
    [][ (isWon' /\ isLost' /\ ~(isWon /\ isLost)) =>
          \/ op' = "reset"
          \/ op' = "guess" /\ isFinished
          \/ /\ op' = "hint"
             /\ ret' # "None"
             /\ ~isFinished
             /\ wrong_guesses' = max_attempts ]_vars

\* a successful hint in a round with a positive budget left the round both
\* won and lost
C1_Witness ==
    /\ op = "hint"
    /\ ret # "None"
    /\ isWon /\ isLost
    /\ max_attempts > 0

\* C2: with no reset in between, once isWon() is true it stays true, and
\* once isLost() is true it stays true.
C2_Stable ==
    [][ op' # "reset" => (isWon => isWon') /\ (isLost => isLost') ]_vars

\* a penalized guess was made in a round that was already lost, and the
\* round is still lost
C2_Witness ==
    /\ op = "guess"
    /\ pre_wrong >= max_attempts
    /\ wrong_guesses > pre_wrong
    /\ isLost

\* C3: processGuess on a letter whose lowercase form is already in
\* used_letters returns False and leaves used_letters and wrong_guesses
\* unchanged; the second of two identical processGuess calls in a row
\* returns False and leaves wrong_guesses unchanged.
C3_Duplicate ==
    [][ /\ (op' = "guess" /\ OneLetter(arg')
              /\ lowerChar(arg'[1]) \in used_letters) =>
            /\ ret' = "False"
            /\ used_letters' = used_letters
            /\ wrong_guesses' = wrong_guesses
        /\ (op = "guess" /\ op' = "guess" /\ arg' = arg) =>
            /\ ret' = "False"
            /\ wrong_guesses' = wrong_guesses ]_vars

\* a letter of the secret word that an earlier guess or hint had put into
\* used_letters was guessed again, in upper case
C3_Witness ==
    /\ op = "guess"
    /\ arg = <<"J">>
    /\ "j" \in pre_used
    /\ charIn("j", secret_word)
    /\ ret = "False"

\* C4: processGuess on an argument that is not exactly one alphabetic
\* character returns False and leaves secret_word, max_attempts,
\* used_letters and wrong_guesses unchanged.
C4_Invalid ==
    [][ (op' = "guess" /\ ~OneLetter(arg')) =>
          /\ ret' = "False"
          /\ game' = game ]_vars

\* a two-letter alphabetic string was guessed in a round in which neither
\* letter had been used
C4_Witness ==
    /\ op = "guess"
    /\ arg = <<"a", "q">>
    /\ "a" \notin used_letters
    /\ "q" \notin used_letters
    /\ charIn("a", secret_word)

C6_Penalty ==
    [][ /\ wrong_guesses' > wrong_guesses =>
             \/ /\ op' = "guess"
                /\ OneLetter(arg')
                /\ lowerChar(arg'[1]) \notin used_letters
                /\ ~charIn(lowerChar(arg'[1]), secret_word)
                /\ wrong_guesses' = wrong_guesses + 1
             \/ /\ op' = "hint"
                /\ ret' # "None"
                /\ wrong_guesses' = wrong_guesses + 2
        /\ wrong_guesses' < wrong_guesses => op' = "reset"
        /\ (op' = "hint" /\ ret' # "None") =>
             wrong_guesses' = wrong_guesses + 2
        /\ (op' = "hint" /\ ret' = "None") =>
             wrong_guesses' = wrong_guesses ]_vars

\* a hint succeeded after a penalized guess, and the counter went from 1 to 3
C6_Witness ==
    /\ op = "hint"
    /\ ret # "None"
    /\ pre_wrong = 1
    /\ wrong_guesses = 3

\* C7: useHint returns None and changes nothing when fewer than 2 attempts
\* remain or when no alphabetic character of secret_word is missing from
\* used_letters.
C7_HintAbsent ==
    [][ (op' = "hint"
           /\ (max_attempts - wrong_guesses < 2
                 \/ MissingLetters(used_letters) = {})) =>
          /\ ret' = "None"
          /\ game' = game ]_vars

\* a hint was refused with exactly one attempt remaining while a letter of
\* the word was still missing
C7_Witness ==
    /\ op = "hint"
    /\ ret = "None"
    /\ max_attempts - wrong_guesses = 1
    /\ MissingLetters(used_letters) # {}

\* C8: when at least 2 attempts remain and an alphabetic character of
\* secret_word is missing from used_letters, every such character is a
\* possible return value of useHint, and useHint returns one of them, adds
\* exactly that letter to used_letters, adds 2 to wrong_guesses and leaves
\* secret_word and max_attempts unchanged.
C8_HintReveals ==
    [][ /\ max_attempts - wrong_guesses >= 2 =>
             \A c \in MissingLetters(used_letters) :
                 ENABLED (useHint /\ ret' = c)
        /\ (op' = "hint" /\ max_attempts - wrong_guesses >= 2
              /\ MissingLetters(used_letters) # {}) =>
             /\ ret' \in MissingLetters(used_letters)
             /\ used_letters' = used_letters \cup {ret'}
             /\ wrong_guesses' = wrong_guesses + 2
             /\ secret_word' = secret_word
             /\ max_attempts' = max_attempts ]_vars

\* with two letters of the word missing, a hint returned the second one
C8_Witness ==
    /\ op = "hint"
    /\ ret = "j"
    /\ secret_word = <<"a", "j">>
    /\ pre_used = BonusSet
    /\ used_letters = BonusSet \cup {"j"}
    /\ wrong_guesses = 2

\* C9: immediately after construction with word w and budget m,
\* secret_word is w lowercased, max_attempts is m, wrong_guesses is 0 and
\* used_letters is exactly {r, s, t, l, n, e}.
C9_Constructed ==
    op = "init" =>
        /\ secret_word = [i \in DOMAIN arg |-> lowerChar(arg[i])]
        /\ max_attempts = arg_max
        /\ wrong_guesses = 0
        /\ used_letters = {"r", "s", "t", "l", "n", "e"}

\* a game was constructed with a negative budget on an upper-case word that
\* holds none of the bonus letters
C9_Witness ==
    /\ op = "init"
    /\ arg = <<"J", "a">>
    /\ arg_max = -1
    /\ secret_word = <<"j", "a">>

\* C10: resetGame(w) leaves exactly the attributes that constructing a game
\* with w and the current max_attempts leaves.
C10_Reset ==
    [][ op' = "reset" =>
          /\ secret_word' = [i \in DOMAIN arg' |-> lowerChar(arg'[i])]
          /\ max_attempts' = max_attempts
          /\ wrong_guesses' = 0
          /\ used_letters' = {"r", "s", "t", "l", "n", "e"}
          /\ game' = << initGame(arg', max_attempts).secret_word,
                        initGame(arg', max_attempts).max_attempts,
                        initGame(arg', max_attempts).used_letters,
                        initGame(arg', max_attempts).wrong_guesses >> ]_vars

\* a round with guessed letters and penalties was reset
C10_Witness ==
    /\ op = "reset"
    /\ pre_wrong >= max_attempts
    /\ pre_wrong > 0
    /\ pre_used # BonusSet
    /\ used_letters = BonusSet
    /\ wrong_guesses = 0

\* C11 (as stated): isWon() returns True iff every alphabetic character of
\* secret_word is in used_letters; non-alphabetic characters need not be
\* in used_letters, and an empty secret word is won.
C11_WonIffLettersUsed ==
    op = "isWon" => (ret = "True" <=> MissingLetters(used_letters) = {})

\* C12: isLost() returns True iff wrong_guesses >= max_attempts, and
\* isFinished() returns isWon() or isLost(), both computed from the
\* attributes as they are when the call is made.
C12_LostFinished ==
    /\ op = "isLost" => (ret = "True" <=> wrong_guesses >= max_attempts)
    /\ op = "isFinished" =>
         (ret = "True" <=> (isWon \/ wrong_guesses >= max_attempts))

\* isFinished() returned True in a round that began unfinished and was
\* lost, not won, by guesses
C12_Witness ==
    /\ op = "isFinished"
    /\ ret = "True"
    /\ max_attempts > 0
    /\ wrong_guesses = max_attempts
    /\ ~isWon

\* the characters of the secret word
WordLetters == {secret_word[i] : i \in DOMAIN secret_word}

\* the letters a penalized guess has put into used_letters when no hint
\* was used: neither bonus letters nor characters of the word
PenalizedLetters == used_letters \ (BonusSet \cup WordLetters)

\* C13: with no successful hint in the round and max_attempts >= 1,
\* isLost() is true iff at least max_attempts distinct letters that are
\* neither in the secret word nor auto-revealed have been guessed, however
\* many correct, duplicate or invalid guesses were made.
C13_LostAtBudget ==
    (hints = 0 /\ max_attempts >= 1) =>
        (isLost <=> Cardinality(PenalizedLetters) >= max_attempts)

\* the second penalized guess lost a round with a budget of 2 in which a
\* correct letter had been guessed as well
C13_Witness ==
    /\ op = "guess"
    /\ hints = 0
    /\ max_attempts = 2
    /\ pre_wrong = 1
    /\ wrong_guesses = 2
    /\ "a" \in used_letters
    /\ charIn("a", secret_word)
    /\ isLost

\* C14: a game constructed with max_attempts <= 0 is lost and finished
\* right after construction, whatever the word, and it is also won iff
\* every character of the word is one of the auto-reveal letters.
C14_ZeroBudget ==
    (op = "init" /\ arg_max <= 0) =>
        /\ max_attempts = arg_max
        /\ isLost
        /\ isFinished
        /\ isWon <=> (\A i \in DOMAIN arg : lowerChar(arg[i]) \in BonusSet)

\* a game constructed with budget 0 on a word of one bonus letter is both
\* won and lost at once
C14_Witness ==
    /\ op = "init"
    /\ arg_max = 0
    /\ arg = <<"e">>
    /\ isWon
    /\ isLost

\* C15: getMaskedWord() returns, for a word of n characters, n symbols
\* separated by n-1 single spaces, where symbol i is the i-th character of
\* secret_word if that character is in used_letters and '_' otherwise, as
\* used_letters stands after the guesses and hints made so far.
C15_MaskedWord ==
    op = "getMaskedWord" =>
        LET n == Len(secret_word) IN
        /\ Len(ret) = IF n = 0 THEN 0 ELSE 2 * n - 1
        /\ \A i \in 1..n :
             ret[2 * i - 1] = IF secret_word[i] \in used_letters
                              THEN secret_word[i]
                              ELSE "_"
        /\ \A i \in 1..(n - 1) : ret[2 * i] = " "

\* after a hint revealed the second letter of a two-letter word, the
\* masked word is "_ j"
C15_Witness ==
    /\ op = "getMaskedWord"
    /\ hints = 1
    /\ secret_word = <<"a", "j">>
    /\ ret = <<"_", " ", "j">>

\* C16 (as stated): every element of used_letters is a single lowercase
\* alphabetic character.
C16_Original == used_letters \subseteq LowerLetters

\* C16 (amended): every element of used_letters is a single alphabetic
\* character that str.lower() leaves unchanged: a lowercase letter, or an
\* alphabetic character of a script without case, which processGuess
\* accepts and stores as it is; never an upper-case letter, a digit or a
\* symbol.
C16_UsedLetters ==
    \A c \in used_letters :
        /\ c \in LowerLetters \cup CaselessLetters
        /\ c \notin UpperLetters \cup NonLetters

\* a caseless alphabetic character was guessed, stored and penalized
C16_Witness ==
    /\ op = "guess"
    /\ arg = <<"U+05D0">>
    /\ "U+05D0" \in used_letters
    /\ "U+05D0" \notin pre_used
    /\ wrong_guesses = pre_wrong + 1

\* C17: processGuess and useHint never change secret_word or max_attempts
\* and never remove a letter from used_letters; only resetGame changes
\* secret_word or takes a letter out of used_letters.
C17_Frame ==
    [][ /\ op' \in {"guess", "hint"} =>
             /\ secret_word' = secret_word
             /\ max_attempts' = max_attempts
             /\ used_letters \subseteq used_letters'
        /\ (secret_word' # secret_word
              \/ ~(used_letters \subseteq used_letters')) =>
             op' = "reset" ]_vars

\* a hint added its letter to used_letters that already held a guessed
\* letter besides the bonus letters
C17_Witness ==
    /\ op = "hint"
    /\ ret # "None"
    /\ pre_used # BonusSet
    /\ pre_used \subseteq used_letters
    /\ pre_used # used_letters

\* the calls that only return a value
QueryNames == {"getMaskedWord", "isWon", "isLost", "isFinished"}

\* C18: getMaskedWord, isWon, isLost and isFinished leave secret_word,
\* max_attempts, used_letters and wrong_guesses unchanged; an attribute
\* changes only in processGuess, useHint or resetGame.
C18_PureQueries ==
    [][ /\ op' \in QueryNames => game' = game
        /\ game' # game => op' \in {"guess", "hint", "reset"} ]_vars

\* getMaskedWord was called in a round with guessed letters and penalties
C18_Witness ==
    /\ op = "getMaskedWord"
    /\ Len(secret_word) = 2
    /\ pre_used = used_letters
    /\ pre_wrong = wrong_guesses
    /\ wrong_guesses > 0
    /\ used_letters # BonusSet

\* what processGuess(s) does in a playing round, as a function of the
\* secret word and the used letters alone: the value returned, the used
\* letters afterwards and the amount added to wrong_guesses
PlayingOutcome(word, used, s) ==
    IF ~OneLetter(s) \/ lowerChar(s[1]) \in used
    THEN [ret |-> "False", used |-> used, penalty |-> 0]
    ELSE IF \E i \in DOMAIN word : word[i] = lowerChar(s[1])
    THEN [ret |-> "True", used |-> used \cup {lowerChar(s[1])}, penalty |-> 0]
    ELSE [ret |-> "False", used |-> used \cup {lowerChar(s[1])}, penalty |-> 1]

\* C19: processGuess has no finished-state guard: in every state, finished
\* (won, lost or both) or playing, the call returns and does what it does in
\* a playing round with the same secret_word and used_letters, whatever
\* wrong_guesses and max_attempts are; so in a lost round a new letter that
\* is not in the word takes wrong_guesses beyond max_attempts.
C19_NoFinishedGuard ==
    [][ /\ op' = "guess" =>
             LET o == PlayingOutcome(secret_word, used_letters, arg') IN
             /\ ret' = o.ret
             /\ used_letters' = o.used
             /\ wrong_guesses' = wrong_guesses + o.penalty
             /\ secret_word' = secret_word
             /\ max_attempts' = max_attempts
        /\ (isLost /\ "q" \notin used_letters) =>
             ENABLED (processGuess(<<"q">>)
                        /\ wrong_guesses' > max_attempts) ]_vars

\* a guess made in a round that was already lost with a positive budget
\* was penalized, and wrong_guesses is now beyond max_attempts
C19_Witness ==
    /\ op = "guess"
    /\ max_attempts > 0
    /\ pre_wrong >= max_attempts
    /\ wrong_guesses = pre_wrong + 1
    /\ wrong_guesses > max_attempts
    /\ ret = "False"

\* processGuess(s) can end with this used_letters, wrong_guesses and
\* return value, leaving secret_word and max_attempts as they are
GuessCanYield(s, used, wrong, r) ==
    ENABLED (/\ processGuess(s)
             /\ used_letters' = used
             /\ wrong_guesses' = wrong
             /\ ret' = r
             /\ secret_word' = secret_word
             /\ max_attempts' = max_attempts)

\* in the current state processGuess(upper_) and processGuess(lower_) have
\* the same return value and the same effect
SameGuess(upper_, lower_) ==
    \A used \in {used_letters, used_letters \cup {upper_[1]},
                 used_letters \cup {lower_[1]}},
       wrong \in {wrong_guesses, wrong_guesses + 1},
       r \in {"True", "False"} :
        GuessCanYield(upper_, used, wrong, r)
            <=> GuessCanYield(lower_, used, wrong, r)

\* C20: in every reachable state processGuess of an upper-case letter has
\* the same return value and effect as processGuess of its lowercase form,
\* and a game built or reset with a mixed-case word has exactly the
\* attributes of one built with the lowercased word and the same budget, so
\* the two behave identically from then on.
C20_CaseNormalized ==
    /\ SameGuess(<<"J">>, <<"j">>)
    /\ SameGuess(<<"E">>, <<"e">>)
    /\ op \in {"init", "reset"} =>
         LET lowered == [i \in DOMAIN arg |-> lowerChar(arg[i])]
             built == initGame(lowered, max_attempts)
         IN  /\ secret_word = built.secret_word
             /\ secret_word = lowered
             /\ used_letters = built.used_letters
             /\ wrong_guesses = built.wrong_guesses

\* a played round was reset with a mixed-case word whose upper-case letter
\* is not the first
C20_Witness ==
    /\ op = "reset"
    /\ arg = <<"a", "J">>
    /\ secret_word = <<"a", "j">>
    /\ pre_used # BonusSet

\* C21: for every word whose characters are all auto-reveal letters (the
\* empty word included) and every budget, isWon() is true immediately
\* after construction and after resetGame, with wrong_guesses = 0.
C21_BeginsWon ==
    (op \in {"init", "reset"}
       /\ \A i \in DOMAIN arg : lowerChar(arg[i]) \in BonusSet) =>
        /\ isWon
        /\ wrong_guesses = 0

\* a round with penalties was reset with a word of bonus letters only and
\* is won before any guess
C21_Witness ==
    /\ op = "reset"
    /\ arg = <<"e", "e">>
    /\ pre_wrong > 0
    /\ isWon
    /\ wrong_guesses = 0

\* C26: in every reachable state (empty secret word, zero or negative
\* budget and finished rounds included) getMaskedWord, isWon, isLost,
\* isFinished and resetGame can be called and complete: the three
\* predicates return a bool, getMaskedWord returns a string and resetGame
\* returns None.
C26_NoError ==
    /\ ENABLED getMaskedWord
    /\ ENABLED isWonCall
    /\ ENABLED isLostCall
    /\ ENABLED isFinishedCall
    /\ \A w \in {<<>>, <<"-">>, <<"a", "J">>} : ENABLED resetGame(w)
    /\ op \in {"isWon", "isLost", "isFinished"} => ret \in {"True", "False"}
    /\ op = "getMaskedWord" => DOMAIN ret = 1..Len(ret)
    /\ op = "reset" => ret = "None"

\* getMaskedWord returned the empty string for an empty secret word in a
\* game with a negative budget
C26_Witness ==
    /\ op = "getMaskedWord"
    /\ secret_word = <<>>
    /\ max_attempts < 0
    /\ isFinished
    /\ ret = <<>>

\* the attributes and the letters of instance i, the reference followed
stateOf(h, g) ==
    [secret_word   |-> g.secret_word,
     used_letters  |-> h[g.used_letters],
     wrong_guesses |-> g.wrong_guesses]

\* C28: a guess, a hint or a reset on one instance leaves the secret word,
\* the used letters and the wrong guesses of the other instance as they
\* were, and the module-level auto-reveal set holds the same six letters
\* before and after, so that every construction and every reset leaves
\* exactly these six letters in the used letters.
C28_NoSharedState ==
    /\ last.op = "init" =>
         \A j \in Instances :
            heap[inst[j].used_letters] = {"r", "s", "t", "l", "n", "e"}
    /\ [][/\ \A j \in Instances \ {last'.who} :
               stateOf(heap', inst'[j]) = stateOf(heap, inst[j])
          /\ heap[AutoRef] = {"r", "s", "t", "l", "n", "e"}
          /\ heap'[AutoRef] = {"r", "s", "t", "l", "n", "e"}
          /\ last'.op = "reset" =>
               heap'[inst'[last'.who].used_letters] =
                   {"r", "s", "t", "l", "n", "e"}
         ]_vars

\* both instances play the same word; the second one has lost attempts, the
\* first one then guesses a letter of the word, which the second one lacks
C28_Witness ==
    /\ last.who = 1
    /\ last.op = "guess"
    /\ last.ret = "True"
    /\ inst[1].secret_word = inst[2].secret_word
    /\ "a" \in heap[inst[1].used_letters]
    /\ "a" \notin heap[inst[2].used_letters]
    /\ inst[1].wrong_guesses = 0
    /\ inst[2].wrong_guesses > 0

\* C27: two games constructed with the same word and budget, after the same
\* resets and guesses and the same hints with the same draw of the
\* randomness source, hold the same secret word, used letters and wrong
\* guesses, and each repeated call returns what the first call returned.
C27_Deterministic ==
    /\ [](pending.op = "none" =>
            stateOf(heap, inst[1]) = stateOf(heap, inst[2]))
    /\ [][(pending.op # "none" /\ pending'.op = "none") =>
            last'.ret = pending.ret]_vars

\* both games lost an attempt to a wrong guess and then took the same hint
C27_Witness ==
    /\ pending.op = "none"
    /\ last.who = 2
    /\ last.op = "hint"
    /\ last.ret = "j"
    /\ inst[1].wrong_guesses = 3
    /\ inst[2].wrong_guesses = 3
    /\ heap[inst[1].used_letters] = heap[inst[2].used_letters]
    /\ "q" \in heap[inst[2].used_letters]

\* the words of a list
wordsIn(list) == {list[k] : k \in DOMAIN list}

\* C22: getRandomWord(c) returns a word of the list of c when c is a known
\* category whose list is not empty, and a word of the list of the default
\* category when c is not a known category; the word it returns is never
\* outside that list.
C22_WordOfCategory ==
    [][out'.op = "getRandomWord" =>
          /\ (out'.arg \in DOMAIN categories
                /\ categories[out'.arg] # <<>>) =>
                 /\ out'.error = "none"
                 /\ out'.word \in wordsIn(categories[out'.arg])
          /\ (out'.arg \notin DOMAIN categories
                /\ categories[DEFAULT_CATEGORY] # <<>>) =>
                 /\ out'.error = "none"
                 /\ out'.word \in wordsIn(categories[DEFAULT_CATEGORY])
          /\ out'.error = "none" =>
                 out'.word \in (IF out'.arg \in DOMAIN categories
                                THEN wordsIn(categories[out'.arg])
                                ELSE wordsIn(categories[DEFAULT_CATEGORY]))
      ]_vars

\* an unknown category was asked for while the default category holds a
\* list that no other category shares, and a word of that list came back
C22_Witness ==
    /\ out.op = "getRandomWord"
    /\ out.arg = "unknown"
    /\ out.error = "none"
    /\ categories["general"] = << <<"j", "a">> >>
    /\ categories["animals"] = << <<"c", "a">> >>
    /\ out.word = <<"j", "a">>

\* the error of the last call names the category whose list was found empty
C23_NamesEmptyCategory ==
    out.names = resolved(categories, out.arg)

\* C23 as stated: whenever the list the lookup ends at is empty,
\* getRandomWord fails with an error that names the category whose list was
\* found empty, also when an unknown category was replaced by an empty
\* default category; no word is returned and the word bank is unchanged.
C23_Original ==
    (out.op = "getRandomWord"
       /\ getWordsForCategory(categories, out.arg) = <<>>) =>
        /\ out.error = "ValueError"
        /\ C23_NamesEmptyCategory
        /\ out.word = <<>>

\* C23: whenever the list the lookup ends at is empty, getRandomWord fails
\* with a ValueError that names the category it was asked for, which is the
\* category with the empty list when that category is known and the unknown
\* category itself when the empty default category took its place; no word
\* is returned and the word bank is unchanged.
C23_EmptyCategoryError ==
    [][(out'.op = "getRandomWord"
          /\ (IF out'.arg \in DOMAIN categories
              THEN categories[out'.arg]
              ELSE categories[DEFAULT_CATEGORY]) = <<>>) =>
          /\ out'.error = "ValueError"
          /\ out'.names = out'.arg
          /\ out'.arg \in DOMAIN categories => categories[out'.names] = <<>>
          /\ out'.word = <<>>
          /\ categories' = categories
      ]_vars

\* an unknown category was asked for while the default category was empty:
\* the error names the unknown category
C23_Witness ==
    /\ out.op = "getRandomWord"
    /\ out.arg = "unknown"
    /\ categories["general"] = <<>>
    /\ out.error = "ValueError"
    /\ out.names = "unknown"
    /\ out.word = <<>>

\* the box b was shown by the handler recorded in o
shown(o, b) == \E k \in DOMAIN o.boxes : o.boxes[k] = b

\* C24: a handler of either front end calls processGuess or useHint only on
\* a game whose isFinished() is false before the call, and the loop of the
\* CLI waits for input only while isFinished() is false and has ended as
\* soon as it is true.
C24_StopWhenFinished ==
    [][/\ out'.calls # <<>> =>
            /\ app.game # 0
            /\ ~isFinishedObj(heap, inst[app.game])
       /\ (app'.front = "cli" /\ app'.pc # "start") =>
            (app'.pc = "exit" <=> isFinishedObj(heap', inst'[app'.game]))
      ]_vars

\* the hint button was clicked on a lost game and the engine was not called
C24_Witness ==
    /\ app.front = "gui"
    /\ app.game # 0
    /\ out.op = "onHintButtonClicked"
    /\ out.calls = <<>>
    /\ isLostObj(inst[app.game])
    /\ ~isWonObj(heap, inst[app.game])

\* C25: when the loop of the CLI ends it prints the win message iff isWon()
\* and the loss message otherwise; after a guess or a hint the GUI shows
\* the win box iff isWon() and the loss box iff isLost() and not isWon(), so
\* that a game both won and lost is reported as won only.
C25_WinBeforeLoss ==
    [][/\ (app'.front = "cli" /\ app'.pc = "exit") =>
            /\ out'.printed \in {"won", "lost"}
            /\ out'.printed = "won" <=> isWonObj(heap', inst'[app'.game])
       /\ (app'.front = "cli" /\ app'.pc # "exit") => out'.printed = ""
       /\ (app'.front = "gui" /\ out'.calls # <<>>) =>
            /\ shown(out', "win") <=> isWonObj(heap', inst'[app'.game])
            /\ shown(out', "loss") <=>
                  /\ isLostObj(inst'[app'.game])
                  /\ ~isWonObj(heap', inst'[app'.game])
      ]_vars

\* a hint with two attempts left revealed the last letter: the game is won
\* and lost, and the win box alone followed the hint box
C25_Witness ==
    /\ app.front = "gui"
    /\ app.game # 0
    /\ out.calls = <<"useHint">>
    /\ isWonObj(heap, inst[app.game])
    /\ isLostObj(inst[app.game])
    /\ out.boxes = <<"hint", "win">>

\* C29: a category change or a click on reset in the GUI starts a new
\* round: current_category is the selected category (on reset the one it
\* was), the secret word is a word of that category (of the default
\* category when the selected one is unknown), the game is a new object
\* with no wrong guesses, the six auto-reveal letters as used letters and
\* the budget of the factory, and the score is the one before.
C29_NewRound ==
    [][(out'.op \in {"onCategoryChanged", "onResetButtonClicked"}
          /\ out'.error = "none") =>
          /\ app'.current_category = out'.arg
          /\ out'.op = "onResetButtonClicked" =>
                app'.current_category = app.current_category
          /\ app'.game \notin {0, app.game}
          /\ \E k \in DOMAIN categories[IF out'.arg \in DOMAIN categories
                                        THEN out'.arg
                                        ELSE DEFAULT_CATEGORY] :
                inst'[app'.game].secret_word =
                    categories[IF out'.arg \in DOMAIN categories
                               THEN out'.arg
                               ELSE DEFAULT_CATEGORY][k]
          /\ inst'[app'.game].wrong_guesses = 0
          /\ inst'[app'.game].max_attempts = 6
          /\ heap'[inst'[app'.game].used_letters] =
                {"r", "s", "t", "l", "n", "e"}
          /\ app'.score = app.score
      ]_vars

\* after a won round with points the category was changed: a new game on a
\* word of the new category, the score kept
C29_Witness ==
    /\ app.front = "gui"
    /\ out.op = "onCategoryChanged"
    /\ out.arg = "animals"
    /\ app.current_category = "animals"
    /\ app.score > 0
    /\ app.game = 2
    /\ inst[2].secret_word = <<"c", "a">>
    /\ inst[2].wrong_guesses = 0

\* C30: _handleWin and _handleLoss called while the app holds no game raise
\* no error, show no message box and leave the score as it was.
C30_DefensiveHandlers ==
    [][out'.op \in {"handleWin", "handleLoss"} =>
          /\ out'.error = "none"
          /\ out'.boxes = <<>>
          /\ app'.score = app.score
      ]_vars

\* C31: in every reachable state wrong_guesses is the number of used
\* letters that are neither auto-reveal letters nor characters of the
\* secret word, plus twice the number of hints that returned a letter since
\* the game was constructed or last reset.
C31_PenaltyAccounting ==
    wrong_guesses =
        Cardinality(used_letters \ ({"r", "s", "t", "l", "n", "e"}
                                      \cup {secret_word[i] :
                                               i \in DOMAIN secret_word}))
        + 2 * hints

\* two letters outside the word were guessed and one hint was taken
C31_Witness ==
    /\ hints = 1
    /\ wrong_guesses = 4
    /\ {"q", "U+05D0"} \subseteq used_letters
    /\ secret_word = <<"a", "j">>
    /\ op = "hint"

\* C32 as stated: every hint that returns a letter leaves wrong_guesses <=
\* max_attempts, and every hint taken with exactly 2 attempts remaining
\* returns a letter and leaves wrong_guesses = max_attempts, isLost() true.
C32_Original ==
    [][op' = "hint" =>
          /\ ret' # "None" => wrong_guesses' <= max_attempts'
          /\ max_attempts - wrong_guesses = 2 =>
                /\ ret' # "None"
                /\ wrong_guesses' = max_attempts'
                /\ wrong_guesses' >= max_attempts'
      ]_vars

\* C32: every hint that returns a letter leaves wrong_guesses <=
\* max_attempts; a hint taken with exactly 2 attempts remaining while an
\* alphabetic character of the secret word is not yet used returns a letter
\* and leaves wrong_guesses = max_attempts, isLost() true; with exactly 2
\* attempts remaining and no such character it returns None and changes
\* nothing.
C32_HintWithinBudget ==
    [][op' = "hint" =>
          /\ ret' # "None" => wrong_guesses' <= max_attempts'
          /\ (max_attempts - wrong_guesses = 2
                /\ \E i \in DOMAIN secret_word :
                      /\ isalphaChar(secret_word[i])
                      /\ secret_word[i] \notin used_letters) =>
                /\ ret' # "None"
                /\ wrong_guesses' = max_attempts'
                /\ wrong_guesses' >= max_attempts'
          /\ (max_attempts - wrong_guesses = 2
                /\ \A i \in DOMAIN secret_word :
                      \/ ~isalphaChar(secret_word[i])
                      \/ secret_word[i] \in used_letters) =>
                /\ ret' = "None"
                /\ wrong_guesses' = wrong_guesses
                /\ used_letters' = used_letters
      ]_vars

\* a hint was taken with exactly 2 of 4 attempts remaining and spent them
C32_Witness ==
    /\ op = "hint"
    /\ ret = "j"
    /\ max_attempts = 4
    /\ pre_wrong = 2
    /\ wrong_guesses = 4
    /\ isLost

\* C33: for every budget, a hint called in a state where isFinished() is
\* true (won, lost or both) returns None and leaves the secret word, the
\* budget, the used letters and the wrong guesses as they were.
C33_NoHintWhenFinished ==
    [][(op' = "hint"
          /\ \/ \A i \in DOMAIN secret_word : secret_word[i] \in used_letters
             \/ wrong_guesses >= max_attempts) =>
          /\ ret' = "None"
          /\ used_letters' = used_letters
          /\ wrong_guesses' = wrong_guesses
          /\ secret_word' = secret_word
          /\ max_attempts' = max_attempts
      ]_vars

\* a hint was asked for in a round that was lost, not won, with a letter of
\* the word still unguessed
C33_Witness ==
    /\ op = "hint"
    /\ ret = "None"
    /\ isLost
    /\ ~isWon
    /\ max_attempts > 0
    /\ unguessed # <<>>

\* C34: when guesses and hints are made only while isFinished() is False
\* and max_attempts >= 0, wrong_guesses <= max_attempts in every reachable
\* state, so that the remaining attempts max_attempts - wrong_guesses are
\* never negative.
C34_WithinBudget ==
    max_attempts >= 0 =>
        /\ wrong_guesses <= max_attempts
        /\ max_attempts - wrong_guesses >= 0

\* a hint spent the last two attempts of a round, after a penalized guess
C34_Witness ==
    /\ op = "hint"
    /\ ret # "None"
    /\ max_attempts = 3
    /\ pre_wrong = 1
    /\ wrong_guesses = 3

\* C35: in a session of the CLI whose game is not both won and lost when it
\* begins, the loop ends in a state where exactly one of isWon() and
\* isLost() is true, and the result printed is that one.
C35_UnambiguousResult ==
    (/\ app.pc = "exit"
     /\ ~(/\ \A i \in DOMAIN inst[1].secret_word :
                inst[1].secret_word[i] \in {"r", "s", "t", "l", "n", "e"}
          /\ 0 >= inst[1].max_attempts)) =>
        /\ isWonObj(heap, inst[1]) # isLostObj(inst[1])
        /\ out.printed = "won" <=> isWonObj(heap, inst[1])
        /\ out.printed = "lost" <=> isLostObj(inst[1])

\* the last letter of the word was entered with one attempt left
C35_Witness ==
    /\ app.pc = "exit"
    /\ out.printed = "won"
    /\ inst[1].secret_word = <<"a", "j">>
    /\ inst[1].max_attempts = 3
    /\ inst[1].wrong_guesses = 2
    /\ ~isLostObj(inst[1])

\* C36: in every reachable state with a non-empty secret word, the string
\* getMaskedWord() returns holds no placeholder '_' iff isWon() is true.
C36_MaskAgreesWithWin ==
    (op = "getMaskedWord" /\ secret_word # <<>>) =>
        ((\A k \in DOMAIN ret : ret[k] # "_") <=> isWon)

\* the masked word of a won two-letter word shows both letters
C36_Witness ==
    /\ op = "getMaskedWord"
    /\ secret_word = <<"a", "j">>
    /\ ret = <<"a", " ", "j">>
    /\ isWon
    /\ wrong_guesses > 0

\* C37: over any sequence of GUI events with the default factory the score
\* never decreases; it changes only in the handler of a guess or a hint
\* that takes the current game from not won to won, by
\* (max_attempts - wrong_guesses) * len(secret_word) as they stand then;
\* every such handler adds this amount, and while the game stays the same a
\* won game stays won and adds nothing more, so that points are added at
\* most once in a round.
C37_ScoreOncePerRound ==
    [][app.front = "gui" =>
          /\ app'.score >= app.score
          /\ app'.score # app.score =>
                /\ out'.calls \in {<<"processGuess">>, <<"useHint">>}
                /\ app.game # 0
                /\ app'.game = app.game
                /\ ~isWonObj(heap, inst[app.game])
                /\ isWonObj(heap', inst'[app.game])
          /\ (/\ app.game # 0
              /\ app'.game = app.game
              /\ ~isWonObj(heap, inst[app.game])
              /\ isWonObj(heap', inst'[app.game])) =>
                /\ inst'[app.game].max_attempts = 6
                /\ app'.score = app.score
                      + (6 - inst'[app.game].wrong_guesses)
                        * Len(inst'[app.game].secret_word)
          /\ (/\ app.game # 0
              /\ app'.game = app.game
              /\ isWonObj(heap, inst[app.game])) =>
                /\ isWonObj(heap', inst'[app.game])
                /\ app'.score = app.score
      ]_vars

\* a round was won with one attempt left, for 2 points, on top of the 4
\* points of an earlier round
C37_Witness ==
    /\ app.front = "gui"
    /\ app.game # 0
    /\ shown(out, "win")
    /\ inst[app.game].wrong_guesses = 5
    /\ Len(inst[app.game].secret_word) = 2
    /\ app.score = 6

\* the letters a-z of the model
AsciiLower == {"a", "j", "q", "b", "c", "d", "f"} \cup {"r", "s", "t", "l", "n", "e"}

\* the session ends and a result is printed
Ended == app.pc = "exit" /\ out.printed \in {"won", "lost"}

\* a session of the CLI on a word of letters a-z with a budget >= 0, in
\* which the player always eventually enters a letter not yet used,
\* eventually reaches isFinished() and prints a result
C38_Terminates ==
    (/\ \A i \in DOMAIN inst[1].secret_word :
           inst[1].secret_word[i] \in AsciiLower
     /\ inst[1].max_attempts >= 0) => <>Ended

\* C38 as stated: the guesses that change the state in a round are guesses
\* of the letters a-z outside the six auto-revealed ones, each at most
\* once, hence at most 20; and the session terminates as above.
C38_Original ==
    /\ [](heap[inst[1].used_letters] \subseteq AsciiLower)
    /\ C38_Terminates

\* C38: every guess that changes the state adds to used_letters exactly one
\* alphabetic character that was not in it and that lower() leaves as it
\* is, whether a letter a-z or not, and changes nothing else but
\* wrong_guesses, so that a round has at most one such guess for each such
\* character (20 of them among a-z); and a session of the CLI on a word of
\* letters a-z with a budget >= 0, in which the player always eventually
\* enters a letter not yet used, eventually reaches isFinished() and
\* prints a result.
C38_BoundedRounds ==
    /\ [][(heap' # heap \/ inst' # inst) =>
            /\ out'.calls = <<"processGuess">>
            /\ \E c \in heap'[inst'[1].used_letters] :
                  /\ c \notin heap[inst[1].used_letters]
                  /\ isalphaChar(c)
                  /\ lowerChar(c) = c
                  /\ heap'[inst'[1].used_letters] =
                        heap[inst[1].used_letters] \cup {c}
            /\ inst'[1].secret_word = inst[1].secret_word
            /\ inst'[1].max_attempts = inst[1].max_attempts
            /\ inst'[1].wrong_guesses \in
                  {inst[1].wrong_guesses, inst[1].wrong_guesses + 1}
         ]_vars
    /\ C38_Terminates

\* a session ended lost after a letter outside a-z was entered among others
C38_Witness ==
    /\ Ended
    /\ out.printed = "lost"
    /\ inst[1].secret_word = <<"a", "j">>
    /\ inst[1].max_attempts = 4
    /\ inst[1].wrong_guesses = 4
    /\ "U+05D0" \in heap[inst[1].used_letters]

====
